---- MODULE Spec2Model ----
(***************************************************************************)
(* Model of journal_summarizer_advanced_v2.py: the per-journal pipeline    *)
(* (fetch, keyword filter, LLM selection, per-article summary, trend       *)
(* synthesis), the thread-pool coordinator in main() and the grouping done *)
(* by generate_html().                                                     *)
(*                                                                         *)
(* A text is a sequence of one-character strings.  A fixed literal of a    *)
(* template is carried as one element (it is never blank).                 *)
(***************************************************************************)
EXTENDS Integers, Sequences, FiniteSets, TLC

VARIABLES
    client,          \* module global `client`: "none" (None) or "openai"
    main_pc,         \* position of main()
    queue,           \* ThreadPoolExecutor work queue (indices into JOURNALS)
    pc,              \* per journal: position of its process_journal task
    attempt,         \* per journal: tenacity attempt_number of the call in progress
    items,           \* per journal: local `items` of process_journal
    valuable,        \* per journal: local `valuable` of process_journal
    sum_i,           \* per journal: number of iterations done of the summary loop
    future,          \* per journal: the Future's state and result
    raised,          \* per journal: the except branch of process_journal ran
    submitted,       \* main(): number of journals given to executor.submit
    all_articles,    \* main(): all_articles
    journal_trends,  \* main(): journal_trends
    completed,       \* main(): completed
    collected,       \* futures already yielded by as_completed
    grouped,         \* generate_html(): grouped
    svc_called,      \* the enrichment service has received a request
    sync,            \* sync_to_github: one run of commit_and_push
    call,            \* a direct call of one function: its arguments
    ret,             \* a direct call of one function: what it returned
    rt               \* one run of the retry decorator around an operation

vars == <<client, main_pc, queue, pc, attempt, items, valuable, sum_i, future,
          raised, submitted, all_articles, journal_trends, completed, collected, grouped,
          svc_called, sync, call, ret, rt>>

pipeline_vars == <<client, main_pc, queue, pc, attempt, items, valuable, sum_i,
                   future, raised, submitted, all_articles, journal_trends, completed,
                   collected, grouped, svc_called, sync>>

pipeline_vars_but_sync == <<client, main_pc, queue, pc, attempt, items, valuable, sum_i,
                            future, raised, submitted, all_articles, journal_trends,
                            completed, collected, grouped, svc_called>>

---------------------------------------------------------------------------
(* Bounds of the model and configuration values.                           *)

\* MAX_WORKERS, TARGET_ARTICLES_PER_JOURNAL: environment-overridable
\* settings (defaults 5 and 15), taken small here.
MAX_WORKERS == 2
TARGET_ARTICLES_PER_JOURNAL == 2
MAX_ITEMS_PER_JOURNAL == 3
MAX_RETRIES == 3

\* Direct calls of select_valuable_with_llm: sizes of the drawn arguments.
MaxCandidates == 3
MaxVerdicts == 3
MaxTarget == 2

\* Direct calls of summarize: length of the drawn reply text.
MaxReply == 3

None == "None"

---------------------------------------------------------------------------
(* Texts.                                                                  *)

Whitespace == {" ", "\n", "\t"}

RECURSIVE LStrip(_)
LStrip(t) ==
    IF t = <<>> THEN <<>>
    ELSE IF Head(t) \in Whitespace THEN LStrip(Tail(t)) ELSE t

RECURSIVE RStrip(_)
RStrip(t) ==
    IF t = <<>> THEN <<>>
    ELSE IF t[Len(t)] \in Whitespace THEN RStrip(SubSeq(t, 1, Len(t) - 1)) ELSE t

\* str.strip()
Strip(t) == RStrip(LStrip(t))

UpperToLower ==
    [c \in {"A","B","C","D","E","F","G","H","I","J","K","L","M","N","O","P","Q",
            "R","S","T","U","V","W","X","Y","Z"} |->
        CASE c = "A" -> "a" [] c = "B" -> "b" [] c = "C" -> "c" [] c = "D" -> "d"
          [] c = "E" -> "e" [] c = "F" -> "f" [] c = "G" -> "g" [] c = "H" -> "h"
          [] c = "I" -> "i" [] c = "J" -> "j" [] c = "K" -> "k" [] c = "L" -> "l"
          [] c = "M" -> "m" [] c = "N" -> "n" [] c = "O" -> "o" [] c = "P" -> "p"
          [] c = "Q" -> "q" [] c = "R" -> "r" [] c = "S" -> "s" [] c = "T" -> "t"
          [] c = "U" -> "u" [] c = "V" -> "v" [] c = "W" -> "w" [] c = "X" -> "x"
          [] c = "Y" -> "y" [] c = "Z" -> "z"]

LowerUnchanged(t) == t

\* str.lower()
Lower(t) == [i \in 1..Len(t) |-> IF t[i] \in DOMAIN UpperToLower
                                 THEN UpperToLower[t[i]] ELSE t[i]]

\* kw in text
Contains(t, kw) ==
    \E i \in 1..(Len(t) - Len(kw) + 1) : SubSeq(t, i, i + Len(kw) - 1) = kw

\* seq[:n] for n >= 0
Take(s, n) == SubSeq(s, 1, IF n < Len(s) THEN n ELSE Len(s))

Min(a, b) == IF a < b THEN a ELSE b

Max(a, b) == IF a > b THEN a ELSE b

---------------------------------------------------------------------------
(* Configuration: JOURNALS (the first three entries) and what their feeds  *)
(* may deliver.                                                            *)

JOURNALS ==
    << [name |-> "Nature",  id |-> "nature"],
       [name |-> "Science", id |-> "science"],
       [name |-> "Cell",    id |-> "cell"] >>

J == 1..Len(JOURNALS)

\* dt.date.today(), as a day number
Today == 9

\* Entries a feed may hold (feedparser entries): title, link, summary,
\* description, published_parsed (a day number >= 1; 0 when the entry has
\* none; -1 for a value dt.date() rejects).
E_qtl  == [title |-> <<"Q","T","L">>, link |-> <<"u","1">>,
           summary |-> <<"<p>","r","i","c","e","</p>">>, description |-> <<>>,
           published_parsed |-> 5]
E_err  == [title |-> <<"E","r","r","a","t","u","m">>, link |-> <<"u","2">>,
           summary |-> <<>>, description |-> <<>>, published_parsed |-> 7]
E_blank == [title |-> <<" ">>, link |-> <<"u","3">>,
           summary |-> <<"x">>, description |-> <<>>, published_parsed |-> 7]
E_gwas == [title |-> <<"G","W","A","S">>, link |-> <<"u","4">>,
           summary |-> <<>>, description |-> <<"m","a","p">>,
           published_parsed |-> 0]
E_news == [title |-> <<"G","e","n","e">>, link |-> <<"u","5">>,
           summary |-> <<"N","e","w","s">>, description |-> <<>>,
           published_parsed |-> -1]
E_nolink == [title |-> <<"S","N","P">>, link |-> <<>>,
           summary |-> <<>>, description |-> <<>>, published_parsed |-> 5]
E_seed == [title |-> <<"S","e","e","d">>, link |-> <<"u","6">>,
           summary |-> <<>>, description |-> <<>>, published_parsed |-> 5]

\* What feedparser.parse(journal["rss"]) may do for journal j: raise, or
\* return a feed with these entries.
FeedBehaviours(j) ==
    CASE j = 1 -> { [raises |-> TRUE,  entries |-> <<>>],
                    [raises |-> FALSE, entries |-> <<E_qtl, E_err, E_gwas>>],
                    [raises |-> FALSE, entries |-> <<E_gwas, E_seed, E_qtl, E_blank>>] }
      [] j = 2 -> { [raises |-> TRUE,  entries |-> <<>>],
                    [raises |-> FALSE, entries |-> <<E_nolink, E_news>>] }
      [] OTHER -> { [raises |-> FALSE, entries |-> <<>>],
                    [raises |-> FALSE, entries |-> <<E_err, E_seed>>] }

---------------------------------------------------------------------------
(* clean_text and fetch_rss_articles.                                      *)

Tags == {"<p>", "</p>"}

\* BeautifulSoup(html_text, "html.parser").get_text()
GetText(t) == SelectSeq(t, LAMBDA c : c \notin Tags)

clean_text(html_text) ==
    IF html_text = <<>> THEN <<>> ELSE Strip(GetText(html_text))

\* x or y
Or(x, y) == IF x # <<>> THEN x ELSE y

PubDate(entry) ==
    IF entry.published_parsed >= 1 THEN entry.published_parsed ELSE Today

\* The dict appended for one feed entry; oid stands for the identity of the
\* dict object (its position in the feed), has_summary for the presence of
\* the key "summary".
ArticleOf(journal, entry, oid) ==
    [journal |-> journal.name, journal_id |-> journal.id,
     title |-> Strip(entry.title), link |-> Strip(entry.link),
     abstract |-> clean_text(Or(entry.summary, entry.description)),
     pub_date |-> PubDate(entry), oid |-> oid, has_summary |-> FALSE, summary |-> <<>>]

KeptEntryTitleOnly(entry) == Strip(entry.title) # <<>>

\* The entries of feed.entries[:max_items] that are kept
KeptEntry(entry) == Strip(entry.title) # <<>> /\ Strip(entry.link) # <<>>

RECURSIVE ArticlesFrom(_, _, _)
ArticlesFrom(journal, entries, oid) ==
    IF entries = <<>> THEN <<>>
    ELSE (IF KeptEntry(Head(entries))
          THEN <<ArticleOf(journal, Head(entries), oid)>> ELSE <<>>)
         \o ArticlesFrom(journal, Tail(entries), oid + 1)

FetchAllEntries(journal, max_items, fb) ==
    IF fb.raises
    THEN [exc |-> FALSE, val |-> <<>>]
    ELSE [exc |-> FALSE, val |-> ArticlesFrom(journal, fb.entries, 1)]

\* One invocation of the body of fetch_rss_articles: exc is whether it
\* raised, val what it returned.
fetch_rss_articles(journal, max_items, fb) ==
    IF fb.raises
    THEN [exc |-> FALSE, val |-> <<>>]
    ELSE [exc |-> FALSE, val |-> ArticlesFrom(journal, Take(fb.entries, max_items), 1)]

---------------------------------------------------------------------------
(* is_core_research.                                                       *)

EXCLUDE_KEYWORDS ==
    { <<"n","e","w","s">>,
      <<"e","d","i","t","o","r","i","a","l">>,
      <<"p","e","r","s","p","e","c","t","i","v","e">>,
      <<"c","o","m","m","e","n","t">>,
      <<"c","o","r","r","e","s","p","o","n","d","e","n","c","e">>,
      <<"v","i","e","w","p","o","i","n","t">>,
      <<"o","p","i","n","i","o","n">>,
      <<"h","i","g","h","l","i","g","h","t">>,
      <<"p","o","l","i","c","y">>,
      <<"c","o","r","r","e","c","t","i","o","n">>,
      <<"e","r","r","a","t","u","m">>,
      <<"r","e","t","r","a","c","t","i","o","n">>,
      <<"p","r","o","t","o","c","o","l">>,
      <<"m","e","t","h","o","d","s">>,
      <<"m","e","t","h","o","d","o","l","o","g","y">>,
      <<"i","n"," ","b","r","i","e","f">>,
      <<"b","r","i","e","f"," ","c","o","m","m","u","n","i","c","a","t","i","o","n">>,
      <<"o","b","i","t","u","a","r","y">>,
      <<"n","e","w","s"," ","f","e","a","t","u","r","e">>,
      <<"b","o","o","k"," ","r","e","v","i","e","w">>,
      <<"c","o","n","f","e","r","e","n","c","e"," ","r","e","p","o","r","t">>,
      <<"i","n"," ","t","h","i","s"," ","i","s","s","u","e">>,
      <<"r","e","s","e","a","r","c","h"," ","h","i","g","h","l","i","g","h","t">>,
      <<"r","e","s","e","a","r","c","h"," ","n","e","w","s">>,
      <<"t","e","c","h","n","i","c","a","l"," ","r","e","p","o","r","t">> }

is_core_research(entry) ==
    LET text == Lower(entry.title \o <<" ">> \o entry.abstract)
    IN  ~ \E kw \in EXCLUDE_KEYWORDS : Contains(text, kw)

RECURSIVE RemoveWhileIterating(_, _)
RemoveWhileIterating(arts, i) ==
    IF i > Len(arts) THEN arts
    ELSE IF is_core_research(arts[i]) THEN RemoveWhileIterating(arts, i + 1)
    ELSE RemoveWhileIterating(SubSeq(arts, 1, i - 1) \o SubSeq(arts, i + 1, Len(arts)),
                              i + 1)

FilterCoreInPlace(arts) == RemoveWhileIterating(arts, 1)

\* [a for a in items if is_core_research(a)]
FilterCore(arts) == SelectSeq(arts, is_core_research)

---------------------------------------------------------------------------
(* The enrichment service and the JSON it may answer with.                 *)

\* A JSON value, or the absence of a key: k is its kind and v its number.
\* A "float" carries its value in tenths (17 is 1.7); "str_int" is a string
\* holding the integer v; "str" is any other string.
JV(k, v) == [k |-> k, v |-> v]
Absent   == JV("absent", 0)

\* int(x): [ok, v]; not ok is a ValueError or TypeError
PyInt(x) ==
    CASE x.k \in {"int", "bool", "str_int"} -> [ok |-> TRUE, v |-> x.v]
      [] x.k = "float" ->
            [ok |-> TRUE, v |-> IF x.v >= 0 THEN x.v \div 10 ELSE -((-x.v) \div 10)]
      [] OTHER -> [ok |-> FALSE, v |-> 0]

\* float(x), in tenths
PyFloat(x) ==
    CASE x.k \in {"int", "bool", "str_int"} -> [ok |-> TRUE, v |-> 10 * x.v]
      [] x.k = "float" -> [ok |-> TRUE, v |-> x.v]
      [] OTHER -> [ok |-> FALSE, v |-> 0]

\* bool(x)
PyBool(x) ==
    CASE x.k \in {"int", "bool", "float"} -> x.v # 0
      [] x.k \in {"str_int", "str"} -> TRUE
      [] OTHER -> FALSE

\* item.get(key, default)
Get(x, default) == IF x.k = "absent" THEN default ELSE x

\* A piece of the reply text: "[", "]", other text ("txt"), a JSON object
\* ("obj", with its id, score and keep members) or a JSON value that is not
\* an object ("lit").
Tok(t) == [t |-> t, id |-> Absent, score |-> Absent, keep |-> Absent]
Obj(id, score, keep) == [t |-> "obj", id |-> id, score |-> score, keep |-> keep]

\* What client.chat.completions.create(...) does: raises ("raise"), answers
\* with no content ("none"), or answers with the text raw.
SvcRaise == [kind |-> "raise", raw |-> <<>>]
SvcNone  == [kind |-> "none",  raw |-> <<>>]
SvcText(raw) == [kind |-> "text", raw |-> raw]

\* raw.find("["), raw.rfind("]"): 0 stands for -1
Find(raw, t) ==
    IF \E i \in 1..Len(raw) : raw[i].t = t
    THEN CHOOSE i \in 1..Len(raw) : raw[i].t = t /\ \A k \in 1..(i - 1) : raw[k].t # t
    ELSE 0
RFind(raw, t) ==
    IF \E i \in 1..Len(raw) : raw[i].t = t
    THEN CHOOSE i \in 1..Len(raw) : raw[i].t = t /\ \A k \in (i + 1)..Len(raw) : raw[k].t # t
    ELSE 0

\* json.loads(json_text): ok when the text is "[", JSON values, "]"
JsonLoads(json_text) ==
    LET n == Len(json_text)
        ok == /\ n >= 2
              /\ json_text[1].t = "["
              /\ json_text[n].t = "]"
              /\ \A i \in 2..(n - 1) : json_text[i].t \in {"obj", "lit"}
    IN  [ok |-> ok, data |-> IF ok THEN SubSeq(json_text, 2, n - 1) ELSE <<>>]

---------------------------------------------------------------------------
(* select_valuable_with_llm.                                               *)

ScoreItemNoLowerBound(item, n_articles) ==
    IF item.t # "obj" THEN [fatal |-> TRUE, add |-> FALSE, x |-> [idx |-> 0, score |-> 0, keep |-> FALSE]]
    ELSE LET idx   == PyInt(item.id)
             score == PyFloat(Get(item.score, JV("int", 0)))
             keep  == PyBool(Get(item.keep, JV("bool", 1)))
         IN  [fatal |-> FALSE,
              add   |-> idx.ok /\ score.ok /\ idx.v < n_articles,
              x     |-> [idx |-> idx.v, score |-> score.v, keep |-> keep]]

\* The loop body over one item of data: [fatal, add, x].  fatal: item.get
\* raised AttributeError (not caught in the loop); add: x was appended.
ScoreItem(item, n_articles) ==
    IF item.t # "obj" THEN [fatal |-> TRUE, add |-> FALSE, x |-> [idx |-> 0, score |-> 0, keep |-> FALSE]]
    ELSE LET idx   == PyInt(item.id)
             score == PyFloat(Get(item.score, JV("int", 0)))
             keep  == PyBool(Get(item.keep, JV("bool", 1)))
         IN  [fatal |-> FALSE,
              add   |-> idx.ok /\ score.ok /\ 0 <= idx.v /\ idx.v < n_articles,
              x     |-> [idx |-> idx.v, score |-> score.v, keep |-> keep]]

RECURSIVE Scored(_, _)
Scored(data, n_articles) ==
    IF data = <<>> THEN <<>>
    ELSE LET r == ScoreItem(Head(data), n_articles)
         IN  (IF r.add THEN <<r.x>> ELSE <<>>) \o Scored(Tail(data), n_articles)

InsertDescUnstable(sorted, x) ==
    LET k == Cardinality({i \in 1..Len(sorted) : sorted[i].key > x.key})
    IN  SubSeq(sorted, 1, k) \o <<x>> \o SubSeq(sorted, k + 1, Len(sorted))

\* list.sort(key=..., reverse=True) on a list of [key, val]: stable,
\* descending; an element goes after those whose key is not smaller
InsertDesc(sorted, x) ==
    LET k == Cardinality({i \in 1..Len(sorted) : sorted[i].key >= x.key})
    IN  SubSeq(sorted, 1, k) \o <<x>> \o SubSeq(sorted, k + 1, Len(sorted))

RECURSIVE SortDesc(_)
SortDesc(s) ==
    IF s = <<>> THEN <<>>
    ELSE InsertDesc(SortDesc(SubSeq(s, 1, Len(s) - 1)), s[Len(s)])

\* kept.sort(key=lambda x: x["score"], reverse=True)
SortByScore(kept) ==
    LET s == SortDesc([i \in 1..Len(kept) |-> [key |-> kept[i].score, val |-> kept[i]]])
    IN  [i \in 1..Len(s) |-> s[i].val]

KeptOnly(scored) == SelectSeq(scored, LAMBDA x : x.keep)

\* kept = [x for x in scored if x["keep"]]; if not kept: kept = scored
Kept(scored) ==
    LET kept == SelectSeq(scored, LAMBDA x : x.keep)
    IN  IF kept = <<>> THEN scored ELSE kept

TruncateNothing(kept, target_n) == kept

\* kept[:target_n]
Truncate(kept, target_n) == Take(kept, target_n)

\* articles[:target_n], returned when there is no client, no article, or the
\* except branch runs
Fallback(articles, target_n) == Take(articles, target_n)

NoRequestIfEmpty(cl, articles) == articles = <<>>

\* if client is None or not articles
NoRequest(cl, articles) == cl = None \/ articles = <<>>

\* The try block up to the end of the loop over data: ok is false when it
\* raised (the request failed, no content, no bracket, json.loads failed,
\* an item without .get); scored is the list the loop built.
ParseOutcome(svc, n_articles) ==
    LET start  == Find(svc.raw, "[")
        end    == RFind(svc.raw, "]")
        loaded == JsonLoads(SubSeq(svc.raw, start, end))
        fatal  == \E i \in 1..Len(loaded.data) : ScoreItem(loaded.data[i], n_articles).fatal
    IN  IF \/ svc.kind # "text"
           \/ start = 0 \/ end = 0
           \/ ~loaded.ok
           \/ fatal
        THEN [ok |-> FALSE, scored |-> <<>>]
        ELSE [ok |-> TRUE, scored |-> Scored(loaded.data, n_articles)]

\* The number of characters of an abstract, of a summary, a request keeps
ABSTRACT_BUDGET == 800

SUMMARY_BUDGET == 600

TruncateToNothing(s, n) == s

\* if len(s) > n: s = s[:n] + "..."
TruncateTo(s, n) ==
    IF Len(s) > n THEN SubSeq(s, 1, n) \o <<".", ".", ".">> ELSE s

\* s.replace("\n", " ")
ReplaceNewlines(s) == [i \in 1..Len(s) |-> IF s[i] = "\n" THEN " " ELSE s[i]]

\* The list of candidates the selection request carries
items_for_llm(articles) ==
    [i \in 1..Len(articles) |->
        [id       |-> i - 1,
         title    |-> articles[i].title,
         abstract |-> TruncateTo(ReplaceNewlines(articles[i].abstract), ABSTRACT_BUDGET),
         pub_date |-> articles[i].pub_date]]

\* The list of items the trend request carries
trend_items(articles_for_this_journal) ==
    [i \in 1..Len(articles_for_this_journal) |->
        [title    |-> articles_for_this_journal[i].title,
         summary  |-> TruncateTo(Strip(articles_for_this_journal[i].summary), SUMMARY_BUDGET),
         pub_date |-> articles_for_this_journal[i].pub_date]]

\* articles[i]: ok is false for an IndexError; a negative i counts from
\* the end of the list
PyItem(articles, i) ==
    IF i >= 0 /\ i < Len(articles) THEN [ok |-> TRUE, v |-> articles[i + 1]]
    ELSE IF i < 0 /\ -i <= Len(articles)
    THEN [ok |-> TRUE, v |-> articles[Len(articles) + i + 1]]
    ELSE [ok |-> FALSE, v |-> articles[1]]

\* One invocation of the body of select_valuable_with_llm.  sent: the
\* request was made.
select_valuable_with_llm(cl, articles, target_n, svc) ==
    IF NoRequest(cl, articles)
    THEN [exc |-> FALSE, val |-> Fallback(articles, target_n), sent |-> FALSE]
    ELSE
      LET parsed == ParseOutcome(svc, Len(articles))
          sel    == Truncate(SortByScore(Kept(parsed.scored)), target_n)
      IN  IF ~parsed.ok \/ \E i \in 1..Len(sel) : ~PyItem(articles, sel[i].idx).ok
          THEN [exc |-> FALSE, val |-> Fallback(articles, target_n), sent |-> TRUE]
          ELSE [exc |-> FALSE,
                val |-> [i \in 1..Len(sel) |-> PyItem(articles, sel[i].idx).v],
                sent |-> TRUE]

---------------------------------------------------------------------------
(* summarize and summarize_journal_trends.                                 *)

\* The text returned by the except branch
FailedSummary(title) ==
    <<"core: automatic summary failed; point 1: the title is ">>
    \o title \o <<"; point 2: see the original link">>

UnavailableAsFailed(title, journal) == FailedSummary(title)

\* The text returned when client is None
UnavailableSummary(title, journal) ==
    <<"core: DEEPSEEK_API_KEY is not configured; point 1: the title is ">>
    \o title \o <<", journal: ", journal, "; point 2: see the original link">>

\* One invocation of the body of summarize
summarize(cl, title, abstract, journal, svc) ==
    IF cl = None
    THEN [exc |-> FALSE, val |-> UnavailableSummary(title, journal), sent |-> FALSE]
    ELSE IF svc.kind # "text"
    THEN [exc |-> FALSE, val |-> FailedSummary(title), sent |-> TRUE]
    ELSE [exc |-> FALSE, val |-> Strip(svc.raw), sent |-> TRUE]

TrendsFailureRaised(cl, journal_name, articles_for_this_journal, svc) ==
    IF cl = None \/ articles_for_this_journal = <<>>
    THEN [exc |-> FALSE, val |-> <<>>, sent |-> FALSE]
    ELSE IF svc.kind # "text"
    THEN [exc |-> TRUE, val |-> <<>>, sent |-> TRUE]
    ELSE [exc |-> FALSE, val |-> Strip(svc.raw), sent |-> TRUE]

\* One invocation of the body of summarize_journal_trends
summarize_journal_trends(cl, journal_name, articles_for_this_journal, svc) ==
    IF cl = None \/ articles_for_this_journal = <<>>
    THEN [exc |-> FALSE, val |-> <<>>, sent |-> FALSE]
    ELSE IF svc.kind # "text"
    THEN [exc |-> FALSE, val |-> <<>>, sent |-> TRUE]
    ELSE [exc |-> FALSE, val |-> Strip(svc.raw), sent |-> TRUE]

---------------------------------------------------------------------------
(* The retry decorator:                                                    *)
(*   @retry(stop=stop_after_attempt(MAX_RETRIES),                          *)
(*          wait=wait_exponential(multiplier=1, min=2, max=10))            *)

\* stop_after_attempt(MAX_RETRIES)
StopAfterAttempt(attempt_number) == attempt_number >= MAX_RETRIES

\* wait_exponential(multiplier=1, min=2, max=10)
WAIT_MULTIPLIER == 1
WAIT_MIN == 2
WAIT_MAX == 10

\* The exponent the library gives to the sleep after the failed attempt
\* attempt_number: attempt_number - 1 in its current releases,
\* attempt_number in earlier ones.  The repository pins no release.
ExpOffsets == {0, 1}

\* wait_exponential.__call__: the sleep after the failed attempt
\* attempt_number, in seconds
WaitExponential(attempt_number, exp_offset) ==
    LET result == WAIT_MULTIPLIER * 2^(attempt_number - exp_offset)
    IN  Max(Max(0, WAIT_MIN), Min(result, WAIT_MAX))

\* What the decorator does after an invocation that raised (exc) or not:
\* hand the value to the caller, invoke again, or give up and raise.
RetryDecision(exc, attempt_number) ==
    IF ~exc THEN "return"
    ELSE IF StopAfterAttempt(attempt_number) THEN "raise" ELSE "retry"

---------------------------------------------------------------------------
(* What the enrichment service may answer in the pipeline.                 *)

V(id, score, keep) == Obj(JV("int", id), JV("int", score), JV("bool", IF keep THEN 1 ELSE 0))

SelectReplies ==
    { SvcRaise,
      SvcText(<<Tok("txt")>>),
      SvcText(<<Tok("["), Tok("]")>>),
      SvcText(<<Tok("txt"), Tok("["), V(0, 5, TRUE), V(1, 9, TRUE), Tok("]")>>),
      SvcText(<<Tok("["), V(1, 4, FALSE), V(0, 4, FALSE), V(7, 9, TRUE), Tok("]"), Tok("txt")>>),
      SvcText(<<Tok("["), V(0, 8, TRUE), V(1, 2, FALSE), V(0, 3, TRUE), V(1, 9, TRUE), Tok("]")>>) }

SummaryReplies == { SvcRaise, SvcText(<<" ">>), SvcText(<<"s", "\n">>) }

TrendReplies == { SvcRaise, SvcText(<<"t", " ">>) }

---------------------------------------------------------------------------
(* process_journal, one task per journal.                                  *)

Stages == {"fetch", "filter", "select", "summarize", "synthesize"}

RunningOrDone == {s \in J : pc[s] \in Stages \cup {"done"}}

\* The tasks that hold a worker thread
Running == {s \in J : pc[s] \in Stages}

\* return (journal, articles, trends_text); exception: the task ended by
\* raising instead
Result(journal, articles, trends) ==
    [exception |-> FALSE, journal |-> journal, articles |-> articles, trends |-> trends]

NoResult ==
    [exception |-> FALSE, journal |-> [name |-> None, id |-> None],
     articles |-> <<>>, trends |-> <<>>]

OnExceptionPartial(journal, valuable_now) == Result(journal, valuable_now, <<>>)

\* except Exception: return (journal, [], "")
OnException(journal, valuable_now) == Result(journal, <<>>, <<>>)

\* The task of journal s ends with result res; its locals are gone.
Return(s, res) ==
    /\ pc' = [pc EXCEPT ![s] = "done"]
    /\ future' = [future EXCEPT ![s] = res]
    /\ items' = [items EXCEPT ![s] = <<>>]
    /\ valuable' = [valuable EXCEPT ![s] = <<>>]
    /\ sum_i' = [sum_i EXCEPT ![s] = 0]
    /\ attempt' = [attempt EXCEPT ![s] = 1]

\* The except branch of process_journal
Caught(s) ==
    /\ Return(s, OnException(JOURNALS[s], valuable[s]))
    /\ raised' = [raised EXCEPT ![s] = TRUE]

\* The decorator invokes the wrapped function again
Again(s) ==
    /\ attempt' = [attempt EXCEPT ![s] = @ + 1]
    /\ UNCHANGED <<pc, future, items, valuable, sum_i, raised>>

main_vars == <<client, main_pc, queue, submitted, all_articles, journal_trends,
               completed, collected, grouped, sync>>

\* items = fetch_rss_articles(journal, max_items=MAX_ITEMS_PER_JOURNAL)
Fetch(s) ==
    /\ pc[s] = "fetch"
    /\ \E fb \in FeedBehaviours(s) :
         LET o == fetch_rss_articles(JOURNALS[s], MAX_ITEMS_PER_JOURNAL, fb)
             d == RetryDecision(o.exc, attempt[s])
         IN  CASE d = "return" ->
                    /\ items' = [items EXCEPT ![s] = o.val]
                    /\ pc' = [pc EXCEPT ![s] = "filter"]
                    /\ attempt' = [attempt EXCEPT ![s] = 1]
                    /\ UNCHANGED <<future, valuable, sum_i, raised>>
               [] d = "retry" -> Again(s)
               [] OTHER -> Caught(s)
    /\ UNCHANGED <<main_vars, svc_called, call, ret, rt>>

AfterFilterNoCheck(kept) == "select"

\* if not items: return (journal, [], "")
AfterFilter(kept) == IF kept = <<>> THEN "done" ELSE "select"

\* items = [a for a in items if is_core_research(a)]; if not items: return
Filter(s) ==
    /\ pc[s] = "filter"
    /\ LET kept == FilterCore(items[s])
       IN  IF AfterFilter(kept) = "done"
           THEN Return(s, Result(JOURNALS[s], <<>>, <<>>)) /\ UNCHANGED raised
           ELSE /\ items' = [items EXCEPT ![s] = kept]
                /\ pc' = [pc EXCEPT ![s] = "select"]
                /\ UNCHANGED <<future, valuable, sum_i, attempt, raised>>
    /\ UNCHANGED <<main_vars, svc_called, call, ret, rt>>

\* valuable = select_valuable_with_llm(...); with nothing selected the
\* summary loop and the trend call are skipped and the task returns
Select(s) ==
    /\ pc[s] = "select"
    /\ \E svc \in SelectReplies :
         LET o == select_valuable_with_llm(client, items[s], TARGET_ARTICLES_PER_JOURNAL, svc)
             d == RetryDecision(o.exc, attempt[s])
         IN  /\ svc_called' = (svc_called \/ o.sent)
             /\ CASE d = "return" ->
                       IF o.val = <<>>
                       THEN Return(s, Result(JOURNALS[s], <<>>, <<>>)) /\ UNCHANGED raised
                       ELSE /\ valuable' = [valuable EXCEPT ![s] = o.val]
                            /\ pc' = [pc EXCEPT ![s] = "summarize"]
                            /\ attempt' = [attempt EXCEPT ![s] = 1]
                            /\ UNCHANGED <<future, items, sum_i, raised>>
                  [] d = "retry" -> Again(s)
                  [] OTHER -> Caught(s)
    /\ UNCHANGED <<main_vars, call, ret, rt>>

\* art["summary"] = ...: art is one dict object, so every place of the list
\* that holds it shows the new summary
SetSummary(arts, oid, text) ==
    [i \in 1..Len(arts) |->
        IF arts[i].oid = oid
        THEN [arts[i] EXCEPT !.has_summary = TRUE, !.summary = text]
        ELSE arts[i]]

\* One iteration of: for art in valuable: art["summary"] = summarize(...)
Summarize(s) ==
    /\ pc[s] = "summarize"
    /\ \E svc \in SummaryReplies :
         LET art == valuable[s][sum_i[s] + 1]
             o == summarize(client, art.title, art.abstract, art.journal, svc)
             d == RetryDecision(o.exc, attempt[s])
         IN  /\ svc_called' = (svc_called \/ o.sent)
             /\ CASE d = "return" ->
                       /\ valuable' = [valuable EXCEPT ![s] = SetSummary(@, art.oid, o.val)]
                       /\ sum_i' = [sum_i EXCEPT ![s] = @ + 1]
                       /\ pc' = [pc EXCEPT ![s] =
                                   IF sum_i[s] + 1 = Len(valuable[s]) THEN "synthesize" ELSE @]
                       /\ attempt' = [attempt EXCEPT ![s] = 1]
                       /\ UNCHANGED <<future, items, raised>>
                  [] d = "retry" -> Again(s)
                  [] OTHER -> Caught(s)
    /\ UNCHANGED <<main_vars, call, ret, rt>>

\* trends_text = summarize_journal_trends(...); return (journal, valuable, trends_text)
Synthesize(s) ==
    /\ pc[s] = "synthesize"
    /\ \E svc \in TrendReplies :
         LET o == summarize_journal_trends(client, JOURNALS[s].name, valuable[s], svc)
             d == RetryDecision(o.exc, attempt[s])
         IN  /\ svc_called' = (svc_called \/ o.sent)
             /\ CASE d = "return" ->
                       Return(s, Result(JOURNALS[s], valuable[s], o.val)) /\ UNCHANGED raised
                  [] d = "retry" -> Again(s)
                  [] OTHER -> Caught(s)
    /\ UNCHANGED <<main_vars, call, ret, rt>>

\* An exception raised inside the try block of process_journal
Throw(s) ==
    /\ pc[s] \in Stages
    /\ Caught(s)
    /\ UNCHANGED <<main_vars, svc_called, call, ret, rt>>

---------------------------------------------------------------------------
(* main: the thread pool, the collection of results, generate_html.        *)

WorkerPerTask == TRUE

\* ThreadPoolExecutor(max_workers=MAX_WORKERS): a worker thread is free
WorkerAvailable == Cardinality(Running) < MAX_WORKERS

\* executor.submit(process_journal, journal), for the journals in turn
Submit ==
    /\ main_pc = "submit"
    /\ submitted < Len(JOURNALS)
    /\ submitted' = submitted + 1
    /\ queue' = Append(queue, submitted + 1)
    /\ main_pc' = IF submitted + 1 = Len(JOURNALS) THEN "collect" ELSE "submit"
    /\ UNCHANGED <<client, pc, attempt, items, valuable, sum_i, future, raised,
                   all_articles, journal_trends, completed, collected, grouped,
                   svc_called, sync, call, ret, rt>>

\* A worker thread takes the next work item of the queue
Start(s) ==
    /\ queue # <<>>
    /\ s = Head(queue)
    /\ WorkerAvailable
    /\ queue' = Tail(queue)
    /\ pc' = [pc EXCEPT ![s] = "fetch"]
    /\ UNCHANGED <<client, main_pc, attempt, items, valuable, sum_i, future, raised,
                   submitted, all_articles, journal_trends, completed, collected,
                   grouped, svc_called, sync, call, ret, rt>>

TrendKeyByArrival(j, n_completed) == JOURNALS[n_completed].name

\* The key under which the trend text of result tuple j is recorded
TrendKey(j, n_completed) == j.name

TrendAlways(trends) == TRUE

\* if trends:
HasTrend(trends) == trends # <<>>

ExtendPartial(all, articles) == all \o Take(articles, 1)

\* all_articles.extend(articles)
Extend(all, articles) == all \o articles

AnyCollected(yielded) == yielded # {}

\* as_completed(future_to_journal) is exhausted: it has yielded every future
AllCollected(yielded) == yielded = J

\* One iteration of: for future in as_completed(future_to_journal)
Collect(s) ==
    /\ main_pc = "collect"
    /\ pc[s] = "done"
    /\ s \notin collected
    /\ completed' = completed + 1
    /\ collected' = collected \cup {s}
    /\ IF future[s].exception
       THEN UNCHANGED <<all_articles, journal_trends>>
       ELSE /\ all_articles' = Extend(all_articles, future[s].articles)
            /\ journal_trends' =
                 IF HasTrend(future[s].trends)
                 THEN (TrendKey(future[s].journal, completed + 1) :> future[s].trends)
                      @@ journal_trends
                 ELSE journal_trends
    /\ main_pc' = IF AllCollected(collected \cup {s}) THEN "check" ELSE "collect"
    /\ UNCHANGED <<client, queue, pc, attempt, items, valuable, sum_i, future, raised,
                   submitted, grouped, svc_called, sync, call, ret, rt>>

NoArticlesUnchecked(all) == FALSE

\* if not all_articles
NoArticles(all) == all = <<>>

\* if not all_articles: return
Check ==
    /\ main_pc = "check"
    /\ main_pc' = IF NoArticles(all_articles) THEN "empty" ELSE "render"
    /\ UNCHANGED <<client, queue, pc, attempt, items, valuable, sum_i, future, raised,
                   submitted, all_articles, journal_trends, completed, collected,
                   grouped, svc_called, sync, call, ret, rt>>

\* arts.sort(key=lambda x: x["pub_date"], reverse=True)
SortByDate(arts) ==
    LET s == SortDesc([i \in 1..Len(arts) |-> [key |-> arts[i].pub_date, val |-> arts[i]]])
    IN  [i \in 1..Len(s) |-> s[i].val]

\* grouped.setdefault(a["journal"], []).append(a), then each list sorted
Grouped(articles) ==
    [name \in {articles[i].journal : i \in 1..Len(articles)} |->
        SortByDate(SelectSeq(articles, LAMBDA a : a.journal = name))]

\* generate_html(all_articles, journal_trends)
Render ==
    /\ main_pc = "render"
    /\ grouped' = Grouped(all_articles)
    /\ \E auto_sync \in BOOLEAN : main_pc' = IF auto_sync THEN "sync" ELSE "end"
    /\ UNCHANGED <<client, queue, pc, attempt, items, valuable, sum_i, future, raised,
                   submitted, all_articles, journal_trends, completed, collected,
                   svc_called, sync, call, ret, rt>>

\* if os.getenv("AUTO_SYNC_GITHUB", "false").lower() == "true": the sync
\* module is loaded and its main() runs; whatever it does, main() goes on
Sync ==
    /\ main_pc = "sync"
    /\ main_pc' = "end"
    /\ UNCHANGED <<client, queue, pc, attempt, items, valuable, sum_i, future, raised,
                   submitted, all_articles, journal_trends, completed, collected,
                   grouped, svc_called, sync, call, ret, rt>>

---------------------------------------------------------------------------
(* The run of main().                                                      *)

NoCall == [fn |-> "none"]

EmptyMap == <<>>

PipelineInit ==
    /\ main_pc = "submit"
    /\ queue = <<>>
    /\ pc = [s \in J |-> "queued"]
    /\ attempt = [s \in J |-> 1]
    /\ items = [s \in J |-> <<>>]
    /\ valuable = [s \in J |-> <<>>]
    /\ sum_i = [s \in J |-> 0]
    /\ future = [s \in J |-> NoResult]
    /\ raised = [s \in J |-> FALSE]
    /\ submitted = 0
    /\ all_articles = <<>>
    /\ journal_trends = EmptyMap
    /\ completed = 0
    /\ collected = {}
    /\ grouped = EmptyMap
    /\ svc_called = FALSE

Init ==
    /\ client \in {None, "openai"}
    /\ PipelineInit
    /\ call = NoCall
    /\ ret = NoCall
    /\ rt = NoCall
    /\ sync = NoCall

Next ==
    \/ Submit
    \/ \E s \in J : Start(s)
    \/ \E s \in J : Fetch(s)
    \/ \E s \in J : Filter(s)
    \/ \E s \in J : Select(s)
    \/ \E s \in J : Summarize(s)
    \/ \E s \in J : Synthesize(s)
    \/ \E s \in J : Throw(s)
    \/ \E s \in J : Collect(s)
    \/ Check
    \/ Render
    \/ Sync

Spec == Init /\ [][Next]_vars

\* One step of the worker thread that runs the task of journal s
TaskStep(s) ==
    \/ Fetch(s) \/ Filter(s) \/ Select(s) \/ Summarize(s) \/ Synthesize(s)
    \/ Throw(s)

\* Every thread that can take a step takes one: a free worker takes the
\* next queued task, a running task goes on (each external call returns or
\* fails), and the main thread goes on with its loop and what follows it
Fairness ==
    /\ WF_vars(Submit)
    /\ \A s \in J : WF_vars(Start(s))
    /\ \A s \in J : WF_vars(TaskStep(s))
    /\ \A s \in J : WF_vars(Collect(s))
    /\ WF_vars(Check)
    /\ WF_vars(Render)
    /\ WF_vars(Sync)

SpecLive == Init /\ [][Next]_vars /\ Fairness

---------------------------------------------------------------------------
(* Direct calls of the decorated functions, on drawn arguments.            *)

\* Sequences over S of length at most n
RECURSIVE SeqsUpTo(_, _)
SeqsUpTo(S, n) ==
    IF n = 0 THEN {<<>>}
    ELSE LET shorter == SeqsUpTo(S, n - 1)
         IN  shorter \cup {Append(q, x) : q \in shorter, x \in S}

\* k candidate articles, distinct dict objects
Candidates(k) == [i \in 1..k |-> ArticleOf(JOURNALS[1], E_qtl, i)]

\* Members of the array the service may answer with
VerdictToks ==
    { V(0, 7, TRUE),
      V(1, 7, TRUE),
      Obj(JV("int", 1), JV("float", 35), JV("bool", 0)),
      V(0, 9, FALSE),
      V(2, 9, FALSE),
      Obj(JV("float", 17), JV("int", 9), Absent),
      Obj(JV("int", -1), JV("int", 9), JV("bool", 1)),
      Obj(JV("int", 0), JV("str", 0), JV("bool", 1)),
      Obj(Absent, JV("int", 5), JV("bool", 1)),
      Obj(JV("str_int", 1), Absent, JV("str", 0)),
      Tok("lit") }

DirectSelectReplies ==
    { SvcRaise, SvcNone,
      SvcText(<<Tok("txt")>>),
      SvcText(<<Tok("[")>>),
      SvcText(<<Tok("]"), Tok("txt"), Tok("[")>>),
      SvcText(<<Tok("["), Tok("txt"), Tok("]")>>) }
    \cup { SvcText(<<Tok("txt"), Tok("[")>> \o vs \o <<Tok("]"), Tok("txt")>>) :
             vs \in SeqsUpTo(VerdictToks, MaxVerdicts) }

DirectSummaryReplies ==
    { SvcRaise, SvcNone } \cup { SvcText(t) : t \in SeqsUpTo({" ", "s", "\n"}, MaxReply) }

DirectTrendReplies ==
    { SvcRaise, SvcNone, SvcText(<<>>), SvcText(<<" ">>), SvcText(<<"t", " ">>) }

\* k selected articles after the summary loop
Summarized(k) ==
    [i \in 1..k |-> [Candidates(k)[i] EXCEPT !.has_summary = TRUE, !.summary = <<"s">>]]

\* Titles and abstracts of entries given to is_core_research
CoreTitles ==
    { <<>>, <<"Q","T","L">>, <<"E","r","r","a","t","u","m">>, <<"N","E","W","S">>,
      <<"i","n">>, <<"N","e","w">> }

CoreAbstracts ==
    { <<>>, <<"r","i","c","e">>, <<"b","r","i","e","f">>, <<"s">>,
      <<"a"," ","P","r","o","t","o","c","o","l">> }

\* Articles a list given to the filter may hold
FilterEntries ==
    { ArticleOf(JOURNALS[1], E_qtl, 1), ArticleOf(JOURNALS[1], E_err, 2),
      ArticleOf(JOURNALS[1], E_news, 3), ArticleOf(JOURNALS[1], E_seed, 4) }

\* What the caller of a decorated function gets when the decorator ends the
\* call after invocation number attempt_number: sent is whether a request
\* was made
Delivered(o, decision, attempt_number) ==
    [decision |-> decision, val |-> o.val, sent |-> o.sent, attempts |-> attempt_number]

\* The decorator after one invocation o of the called function, seen being
\* the call with what that invocation met: it invokes the function again, or
\* the call ends
AfterInvocation(o, seen) ==
    LET d == RetryDecision(o.exc, call.attempt_number)
    IN  IF d = "retry"
        THEN /\ call' = [seen EXCEPT !.attempt_number = @ + 1]
             /\ UNCHANGED ret
        ELSE /\ call' = seen
             /\ ret' = Delivered(o, d, call.attempt_number)

CallInit ==
    /\ client \in {None, "openai"}
    /\ PipelineInit
    /\ call = NoCall
    /\ ret = NoCall
    /\ rt = NoCall
    /\ sync = NoCall

\* What the feed of journal j may do in a direct call of fetch_rss_articles
DirectFeeds(j) ==
    FeedBehaviours(j)
    \cup { [raises |-> FALSE, entries |-> <<E_blank, E_qtl, E_nolink, E_seed, E_gwas>>],
           [raises |-> FALSE, entries |-> <<E_news, E_nolink>>] }

\* fetch_rss_articles(journal, max_items) is called
CallFetch ==
    /\ call = NoCall
    /\ \E j \in J, m \in 1..MAX_ITEMS_PER_JOURNAL :
         call' = [fn |-> "fetch", journal |-> j, max_items |-> m,
                  fb |-> [raises |-> FALSE, entries |-> <<>>], attempt_number |-> 1]
    /\ UNCHANGED <<pipeline_vars, ret, rt>>

\* ... and is invoked, with what the feed did (fb)
ReturnFetch ==
    /\ call.fn = "fetch"
    /\ ret = NoCall
    /\ \E fb \in DirectFeeds(call.journal) :
         LET o == fetch_rss_articles(JOURNALS[call.journal], call.max_items, fb)
         IN  AfterInvocation([exc |-> o.exc, val |-> o.val, sent |-> FALSE],
                             [call EXCEPT !.fb = fb])
    /\ UNCHANGED <<pipeline_vars, rt>>

\* select_valuable_with_llm(journal_name, articles, target_n) is called
CallSelect ==
    /\ call = NoCall
    /\ \E k \in 0..MaxCandidates, n \in 1..MaxTarget :
         call' = [fn |-> "select", articles |-> Candidates(k), target_n |-> n,
                  svc |-> SvcRaise, attempt_number |-> 1]
    /\ UNCHANGED <<pipeline_vars, ret, rt>>

\* ... and is invoked, with what the service did (svc) if it was asked
ReturnSelect ==
    /\ call.fn = "select"
    /\ ret = NoCall
    /\ \E svc \in (IF client = None THEN {SvcRaise} ELSE DirectSelectReplies) :
         AfterInvocation(select_valuable_with_llm(client, call.articles, call.target_n, svc),
                         [call EXCEPT !.svc = svc])
    /\ UNCHANGED <<pipeline_vars, rt>>

\* summarize(title, abstract, journal) is called
CallSummarize ==
    /\ call = NoCall
    /\ \E title \in {<<>>, <<"Q","T","L">>}, abstract \in {<<>>, <<"m","a","p">>}, j \in J :
         call' = [fn |-> "summarize", title |-> title, abstract |-> abstract,
                  journal |-> JOURNALS[j].name, svc |-> SvcRaise, attempt_number |-> 1]
    /\ UNCHANGED <<pipeline_vars, ret, rt>>

\* ... and is invoked
ReturnSummarize ==
    /\ call.fn = "summarize"
    /\ ret = NoCall
    /\ \E svc \in (IF client = None THEN {SvcRaise} ELSE DirectSummaryReplies) :
         AfterInvocation(summarize(client, call.title, call.abstract, call.journal, svc),
                         [call EXCEPT !.svc = svc])
    /\ UNCHANGED <<pipeline_vars, rt>>

\* summarize_journal_trends(journal_name, articles_for_this_journal) is called
CallTrends ==
    /\ call = NoCall
    /\ \E k \in 0..MaxCandidates :
         call' = [fn |-> "trends", journal_name |-> JOURNALS[1].name,
                  articles |-> Summarized(k), svc |-> SvcRaise, attempt_number |-> 1]
    /\ UNCHANGED <<pipeline_vars, ret, rt>>

\* ... and is invoked
ReturnTrends ==
    /\ call.fn = "trends"
    /\ ret = NoCall
    /\ \E svc \in (IF client = None \/ call.articles = <<>>
                   THEN {SvcRaise} ELSE DirectTrendReplies) :
         AfterInvocation(summarize_journal_trends(client, call.journal_name,
                                                  call.articles, svc),
                         [call EXCEPT !.svc = svc])
    /\ UNCHANGED <<pipeline_vars, rt>>

\* is_core_research(entry) is called and returns
CallCore ==
    /\ call = NoCall
    /\ \E title \in CoreTitles, abstract \in CoreAbstracts :
         LET entry == [title |-> title, abstract |-> abstract]
         IN  /\ call' = [fn |-> "is_core_research", entry |-> entry]
             /\ ret' = [val |-> is_core_research(entry)]
    /\ UNCHANGED <<pipeline_vars, rt>>

\* A text of n characters, the second of them a line break
Filled(n) == [i \in 1..n |-> IF i = 2 THEN "\n" ELSE "a"]

AbstractLengths == {0, 1, ABSTRACT_BUDGET - 1, ABSTRACT_BUDGET, ABSTRACT_BUDGET + 1, ABSTRACT_BUDGET + 100}

SummaryLengths == {0, SUMMARY_BUDGET, SUMMARY_BUDGET + 1, SUMMARY_BUDGET + 100}

\* The lists both requests carry are built for an article with an abstract
\* and a summary of some length (the summary between blanks)
CallPayload ==
    /\ call = NoCall
    /\ client # None
    /\ \E n \in AbstractLengths, m \in SummaryLengths :
         LET a == [Candidates(1)[1] EXCEPT !.abstract = Filled(n),
                                           !.has_summary = TRUE,
                                           !.summary = <<" ">> \o Filled(m) \o <<" ">>]
         IN  /\ call' = [fn |-> "payload", articles |-> <<a>>]
             /\ ret' = [select |-> items_for_llm(<<a>>), trends |-> trend_items(<<a>>)]
    /\ UNCHANGED <<pipeline_vars, rt>>

\* items = [a for a in items if is_core_research(a)] runs on a list
CallFilter ==
    /\ call = NoCall
    /\ \E arts \in SeqsUpTo(FilterEntries, MaxCandidates) :
         /\ call' = [fn |-> "filter", items |-> arts]
         /\ ret' = [val |-> FilterCore(arts), given |-> arts, times |-> 1]
    /\ UNCHANGED <<pipeline_vars, rt>>

\* ... and once more, on the list it produced
FilterAgain ==
    /\ call.fn = "filter"
    /\ ret # NoCall
    /\ ret.times = 1
    /\ ret' = [val |-> FilterCore(ret.val), given |-> ret.val, times |-> 2]
    /\ UNCHANGED <<pipeline_vars, call, rt>>

Calls ==
    \/ CallFetch \/ ReturnFetch
    \/ CallSelect \/ ReturnSelect
    \/ CallSummarize \/ ReturnSummarize
    \/ CallTrends \/ ReturnTrends
    \/ CallCore
    \/ CallFilter \/ FilterAgain
    \/ CallPayload

\* Direct calls only
SpecCalls == CallInit /\ [][Calls]_vars

\* A run of main(), or one direct call
DirectCall == main_pc = "submit" /\ submitted = 0 /\ Calls

PipelineStep == call = NoCall /\ Next

SpecAll == Init /\ [][PipelineStep \/ DirectCall]_vars

---------------------------------------------------------------------------
(* One run of the retry decorator around an operation that may raise.      *)

Errors == {"Timeout", "ConnectionError", "InternalServerError", "ValueError"}

Exc(type, cause) == [type |-> type, cause |-> cause]

NoExc == Exc("none", "none")

\* What the caller receives when the decorator gives up after an invocation
\* that raised err: no reraise=True is given, so a RetryError that wraps the
\* last attempt.
GiveUp(err) == Exc("RetryError", err.type)

RetryInit ==
    /\ client \in {None, "openai"}
    /\ PipelineInit
    /\ call = NoCall
    /\ ret = NoCall
    /\ sync = NoCall
    /\ \E e \in ExpOffsets :
         rt = [state |-> "calling", attempt_number |-> 1, history |-> <<>>,
               value |-> "none", raised |-> NoExc, exp_offset |-> e, waits |-> <<>>]

\* The decorator invokes the operation, which returns a value or raises;
\* after a failure that is not the last it sleeps for the computed wait
RtInvoke ==
    /\ rt.state = "calling"
    /\ \E o \in {[exc |-> FALSE, val |-> v, err |-> NoExc] : v \in {"v1", "v2"}}
             \cup {[exc |-> TRUE, val |-> "none", err |-> Exc(e, "none")] : e \in Errors} :
         LET d == RetryDecision(o.exc, rt.attempt_number)
             h == Append(rt.history, o)
         IN  rt' = CASE d = "return" -> [rt EXCEPT !.state = "returned", !.history = h,
                                                   !.value = o.val]
                     [] d = "retry"  -> [rt EXCEPT !.state = "sleeping", !.history = h,
                                                   !.waits = Append(@,
                                                       WaitExponential(rt.attempt_number,
                                                                       rt.exp_offset))]
                     [] OTHER        -> [rt EXCEPT !.state = "raised", !.history = h,
                                                   !.raised = GiveUp(o.err)]
    /\ UNCHANGED <<pipeline_vars, call, ret>>

\* The backoff sleep ends; next attempt
RtWake ==
    /\ rt.state = "sleeping"
    /\ rt' = [rt EXCEPT !.state = "calling", !.attempt_number = @ + 1]
    /\ UNCHANGED <<pipeline_vars, call, ret>>

SpecRetry == RetryInit /\ [][RtInvoke \/ RtWake]_vars

---------------------------------------------------------------------------
(* sync_to_github: one run of commit_and_push().                           *)

\* How a git command ends: its exit code and what it wrote
Proc(code, stdout, stderr) == [code |-> code, stdout |-> stdout, stderr |-> stderr]

\* run_command(cmd, check): subprocess.run raises CalledProcessError only
\* when check is true and the exit code is not 0
run_command(check, proc) ==
    IF check /\ proc.code # 0
    THEN [success |-> FALSE, output |-> proc.stderr]
    ELSE [success |-> TRUE, output |-> proc.stdout]

max_retries == 3

NothingToCommit == <<"n", "o", "t", "h", "i", "n", "g", " ", "t", "o", " ", "c", "o", "m", "m", "i", "t">>

StatusOutcomes ==
    { Proc(code, stdout, <<>>) :
        code \in {0, 128}, stdout \in {<<>>, <<" ">>, <<"M", " ", "a">>} }

AddOutcomes ==
    { Proc(0, <<>>, <<>>), Proc(1, <<>>, <<"w", "a", "r", "n">>), Proc(128, <<>>, <<"f", "a", "t", "a", "l">>) }

CommitOutcomes ==
    { Proc(0, <<"1", " ", "f", "i", "l", "e">>, <<>>),
      Proc(1, <<"N", "o", "t", "h", "i", "n", "g", " ", "t", "o", " ", "c", "o", "m", "m", "i", "t">>, <<>>),
      Proc(1, <<>>, NothingToCommit),
      Proc(128, <<>>, <<"f", "a", "t", "a", "l">>) }

PushOutcomes ==
    { Proc(0, <<>>, <<>>),
      Proc(0, <<>>, <<"u", "p", "-", "t", "o", "-", "d", "a", "t", "e">>),
      Proc(1, <<>>, <<"r", "e", "j", "e", "c", "t", "e", "d">>),
      Proc(128, <<>>, <<"f", "a", "t", "a", "l">>),
      Proc(255, <<>>, <<"d", "e", "n", "i", "e", "d">>) }

\* commit_and_push() has run cmd, which ended as proc
Ran(cmd, proc) ==
    Append(sync.log, [cmd |-> cmd, code |-> proc.code,
                      stdout |-> proc.stdout, stderr |-> proc.stderr])

\* commit_and_push() returns value after the commands of log
Finished(log, value) == [pc |-> "done", attempt |-> 0, log |-> log, result |-> value]

PushInit ==
    /\ client \in {None, "openai"}
    /\ PipelineInit
    /\ call = NoCall
    /\ ret = NoCall
    /\ rt = NoCall
    /\ sync = [pc |-> "status", attempt |-> 0, log |-> <<>>, result |-> FALSE]

\* git status --porcelain; if not output.strip(): return True
GitStatus ==
    /\ sync # NoCall
    /\ sync.pc = "status"
    /\ \E proc \in StatusOutcomes :
         LET r == run_command(FALSE, proc)
         IN  sync' = IF Strip(r.output) = <<>>
                     THEN Finished(Ran("status", proc), TRUE)
                     ELSE [sync EXCEPT !.pc = "add", !.log = Ran("status", proc)]
    /\ UNCHANGED <<pipeline_vars_but_sync, call, ret, rt>>

\* git add docs/; if not success: return False
GitAdd ==
    /\ sync # NoCall
    /\ sync.pc = "add"
    /\ \E proc \in AddOutcomes :
         LET r == run_command(TRUE, proc)
         IN  sync' = IF ~r.success
                     THEN Finished(Ran("add", proc), FALSE)
                     ELSE [sync EXCEPT !.pc = "commit", !.log = Ran("add", proc)]
    /\ UNCHANGED <<pipeline_vars_but_sync, call, ret, rt>>

\* git commit -m ...; if not success: "nothing to commit" makes it True
GitCommit ==
    /\ sync # NoCall
    /\ sync.pc = "commit"
    /\ \E proc \in CommitOutcomes :
         LET r == run_command(FALSE, proc)
         IN  sync' = IF ~r.success
                     THEN Finished(Ran("commit", proc),
                                   Contains(Lower(r.output), NothingToCommit))
                     ELSE [sync EXCEPT !.pc = "push", !.attempt = 0,
                                       !.log = Ran("commit", proc)]
    /\ UNCHANGED <<pipeline_vars_but_sync, call, ret, rt>>

\* One iteration of: for attempt in range(max_retries): git push origin main
GitPush ==
    /\ sync # NoCall
    /\ sync.pc = "push"
    /\ sync.attempt < max_retries
    /\ \E proc \in PushOutcomes :
         LET r == run_command(FALSE, proc)
         IN  sync' = IF r.success
                     THEN Finished(Ran("push", proc), TRUE)
                     ELSE IF sync.attempt < max_retries - 1
                     THEN [sync EXCEPT !.attempt = @ + 1, !.log = Ran("push", proc)]
                     ELSE Finished(Ran("push", proc), FALSE)
    /\ UNCHANGED <<pipeline_vars_but_sync, call, ret, rt>>

SpecPush == PushInit /\ [][GitStatus \/ GitAdd \/ GitCommit \/ GitPush]_vars

---------------------------------------------------------------------------
(* Properties of the run of main().                                        *)

ItemsOf(s) == SelectSeq(all_articles, LAMBDA a : a.journal_id = JOURNALS[s].id)

TrendRecorded(s, text) ==
    IF text = <<>>
    THEN JOURNALS[s].name \notin DOMAIN journal_trends
    ELSE /\ JOURNALS[s].name \in DOMAIN journal_trends
         /\ journal_trends[JOURNALS[s].name] = text

\* C1: a journal whose process_journal raised at any stage contributes an
\* empty result (no items, no trend text); no task ends with an exception
\* for main to meet; and each collected journal's part of the merged result
\* (its items, its trend entry) is exactly the result of its own task,
\* whatever happened to the other journals.
C1_FailureIsolation ==
    \A s \in J :
        /\ ~future[s].exception
        /\ (pc[s] = "done" /\ raised[s]) =>
               future[s].articles = <<>> /\ future[s].trends = <<>>
        /\ s \in collected =>
               /\ ItemsOf(s) = future[s].articles
               /\ TrendRecorded(s, future[s].trends)
        /\ s \notin collected =>
               ItemsOf(s) = <<>> /\ JOURNALS[s].name \notin DOMAIN journal_trends

C1_Witness ==
    /\ main_pc = "end"
    /\ \E s, t \in J :
          /\ raised[s]
          /\ ~raised[t]
          /\ future[t].articles # <<>>
          /\ future[t].trends # <<>>

\* C2: every journal is dispatched exactly once (it is in the queue, or its
\* task has started, never both and never twice, and all are dispatched once
\* submission is over), and at most MAX_WORKERS tasks execute at a time; a
\* journal in the queue has not started.
C2_ConcurrencyCap ==
    /\ Cardinality(Running) <= MAX_WORKERS
    /\ \A s \in J :
          /\ Cardinality({i \in 1..Len(queue) : queue[i] = s}) <= 1
          /\ (\E i \in 1..Len(queue) : queue[i] = s) => pc[s] = "queued" /\ s <= submitted
          /\ (pc[s] # "queued") => s <= submitted
          /\ (s <= submitted /\ pc[s] = "queued") => \E i \in 1..Len(queue) : queue[i] = s
    /\ main_pc # "submit" => submitted = Len(JOURNALS)

C2_Witness ==
    /\ Cardinality(Running) = MAX_WORKERS
    /\ queue # <<>>
    /\ main_pc = "collect"

\* C3: once generate_html has grouped the merged result, each journal's
\* group is its own task's items in the date order generate_html gives
\* them, a journal without items has no group, and the trend mapping holds
\* exactly the non-empty trend texts of the tasks: nothing depends on the
\* order in which the tasks completed.
C3_OrderIndependent ==
    main_pc = "end" =>
        /\ DOMAIN grouped = {JOURNALS[s].name : s \in {x \in J : future[x].articles # <<>>}}
        /\ \A s \in J : future[s].articles # <<>> =>
               grouped[JOURNALS[s].name] = SortByDate(future[s].articles)
        /\ DOMAIN journal_trends = {JOURNALS[s].name : s \in {x \in J : future[x].trends # <<>>}}
        /\ \A s \in J : TrendRecorded(s, future[s].trends)

\* The journals completed in an order other than that of JOURNALS.
C3_Witness ==
    /\ main_pc = "end"
    /\ Len(all_articles) >= 3
    /\ all_articles[1].journal_id = "cell"
    /\ all_articles[Len(all_articles)].journal_id = "nature"
    /\ "Nature" \in DOMAIN journal_trends
    /\ "Cell" \in DOMAIN journal_trends

Rank(p) ==
    CASE p = "queued" -> 0 [] p = "fetch" -> 1 [] p = "filter" -> 2 [] p = "select" -> 3
      [] p = "summarize" -> 4 [] p = "synthesize" -> 5 [] OTHER -> 6

StageStep(s) ==
    /\ pc'[s] # pc[s] =>
          /\ Rank(pc'[s]) > Rank(pc[s])
          /\ pc'[s] # "done" => Rank(pc'[s]) = Rank(pc[s]) + 1
          /\ (pc[s] = "filter" /\ FilterCore(items[s]) = <<>>) => pc'[s] = "done"
          /\ pc'[s] = "select" => items'[s] # <<>>
          /\ pc'[s] = "synthesize" =>
                sum_i'[s] = Len(valuable'[s]) /\ Len(valuable'[s]) > 0
    /\ sum_i'[s] # sum_i[s] =>
          \/ pc[s] = "summarize" /\ sum_i'[s] = sum_i[s] + 1
          \/ pc'[s] = "done" /\ sum_i'[s] = 0

\* C4: a task moves only forward through Fetch, Filter, Select, Summarize,
\* Synthesize, Done, one stage at a time unless it goes to Done; with no
\* candidate left by the filter it goes from Filter to Done; it enters
\* Synthesize only after one Summarize step per selected item.
C4_StageOrder == [][\A s \in J : StageStep(s)]_vars

C4_Witness ==
    \E s \in J : pc[s] = "synthesize" /\ sum_i[s] = 2 /\ Len(valuable[s]) = 2

---------------------------------------------------------------------------
(* Properties of select_valuable_with_llm, summarize and the decorator.    *)

\* A direct call of fn has returned
Returned(fn) == call.fn = fn /\ ret # NoCall

\* What the try block made of the reply of a returned call of select
Parsed == ParseOutcome(call.svc, Len(call.articles))

\* The request was made and the reply went through the whole try block
SelectParsed ==
    /\ Returned("select")
    /\ client # None
    /\ call.articles # <<>>
    /\ Parsed.ok

\* Place of verdict i among the verdicts K when ordered by score, highest
\* first, verdicts of equal score in the order of the reply
RankIn(sc, K, i) ==
    1 + Cardinality({j \in K : sc[j].score > sc[i].score})
      + Cardinality({j \in K : j < i /\ sc[j].score = sc[i].score})

\* The candidates of the first n verdicts of K in that order
ExpectedPick(sc, K, arts, n) ==
    [p \in 1..Min(n, Cardinality(K)) |->
        arts[sc[CHOOSE i \in K : RankIn(sc, K, i) = p].idx + 1]]

KeepTrue(sc) == {i \in 1..Len(sc) : sc[i].keep}

\* C5: select_valuable_with_llm returns at most target_n items, whatever
\* the candidates, the reply and the path taken; so process_journal never
\* holds, returns or merges more than TARGET_ARTICLES_PER_JOURNAL items of
\* one journal.
C5_TruncationBound ==
    /\ Returned("select") => Len(ret.val) <= call.target_n
    /\ \A s \in J :
          /\ Len(valuable[s]) <= TARGET_ARTICLES_PER_JOURNAL
          /\ Len(future[s].articles) <= TARGET_ARTICLES_PER_JOURNAL
          /\ Len(ItemsOf(s)) <= TARGET_ARTICLES_PER_JOURNAL

\* More verdicts were kept than target_n, and the reply was used.
C5_Witness ==
    /\ SelectParsed
    /\ Len(Kept(Parsed.scored)) > call.target_n
    /\ Len(ret.val) = call.target_n

\* C6: with no client, select_valuable_with_llm returns the first
\* min(target_n, len(articles)) candidates in their order and makes no
\* request.
C6_NoClientFallback ==
    (Returned("select") /\ client = None) =>
        /\ ret.decision = "return"
        /\ ~ret.sent
        /\ Len(ret.val) = Min(call.target_n, Len(call.articles))
        /\ \A i \in 1..Len(ret.val) : ret.val[i] = call.articles[i]

C6_Witness ==
    /\ Returned("select")
    /\ client = None
    /\ Len(call.articles) > call.target_n
    /\ ret.val = SubSeq(call.articles, 1, call.target_n)

\* C7: when the reply parses and holds a valid verdict with keep true, the
\* result is the candidates of the valid keep-true verdicts only, by score
\* descending, equal scores in the order of the reply, cut to target_n.
C7_SelectionPolicy ==
    (SelectParsed /\ KeepTrue(Parsed.scored) # {}) =>
        ret.val = ExpectedPick(Parsed.scored, KeepTrue(Parsed.scored),
                               call.articles, call.target_n)

\* Two keep-true verdicts of equal score for different candidates, a
\* keep-false verdict of higher score, and more keep-true verdicts than
\* target_n.
C7_Witness ==
    /\ SelectParsed
    /\ LET sc == Parsed.scored
           K  == KeepTrue(sc)
       IN  /\ Cardinality(K) > call.target_n
           /\ \E i, j \in K : i < j /\ sc[i].score = sc[j].score /\ sc[i].idx # sc[j].idx
           /\ \E i \in 1..Len(sc), j \in K : ~sc[i].keep /\ sc[i].score > sc[j].score

\* C8: when the reply parses, holds a valid verdict and none has keep true,
\* the result is not empty: it is the candidates of the
\* min(target_n, number of valid verdicts) highest-scored verdicts, highest
\* first.
C8_DegradeOnEmptyKeep ==
    (SelectParsed /\ Parsed.scored # <<>> /\ KeepTrue(Parsed.scored) = {}) =>
        /\ ret.val # <<>>
        /\ Len(ret.val) = Min(call.target_n, Len(Parsed.scored))
        /\ ret.val = ExpectedPick(Parsed.scored, 1..Len(Parsed.scored),
                                  call.articles, call.target_n)

\* No verdict has keep true, and the highest score is not the first verdict.
C8_Witness ==
    /\ SelectParsed
    /\ KeepTrue(Parsed.scored) = {}
    /\ Len(Parsed.scored) > call.target_n
    /\ Parsed.scored[1].score < Parsed.scored[2].score
    /\ ret.val[1] = call.articles[Parsed.scored[2].idx + 1]

\* C9: summarize returns a non-empty text and raises nothing, whatever the
\* title, abstract, journal and behaviour of the service.
C9_SummaryNeverEmpty ==
    Returned("summarize") => ret.decision = "return" /\ ret.val # <<>>

\* C10: the decorator invokes the operation at most MAX_RETRIES times,
\* again only after a failed invocation, stops at the first success, and
\* after MAX_RETRIES failures the caller receives the error of the last
\* invocation itself.
C10_RetryContract ==
    LET h == rt.history
    IN  /\ Len(h) <= MAX_RETRIES
        /\ \A i \in 1..(Len(h) - 1) : h[i].exc
        /\ rt.state = "returned" => ~h[Len(h)].exc /\ rt.value = h[Len(h)].val
        /\ rt.state = "sleeping" => h[Len(h)].exc /\ Len(h) < MAX_RETRIES
        /\ rt.state = "raised" =>
              /\ Len(h) = MAX_RETRIES
              /\ h[Len(h)].exc
              /\ rt.raised = h[Len(h)].err

\* C11: the k-th wait of a run of the decorator (k = 0 after the first
\* failure) lasts min(10, 2 * 2^k) seconds: an operation that fails twice and
\* then succeeds has waited 2 s and then 4 s; no wait is longer than 10 s.
C11_BackoffSchedule ==
    /\ \A k \in 1..Len(rt.waits) :
          /\ rt.waits[k] = Min(10, 2 * 2^(k - 1))
          /\ rt.waits[k] <= 10
    /\ (rt.state = "returned" /\ Len(rt.history) = 3) => rt.waits = <<2, 4>>

\* C12: when the feed fetch fails, or the service call made by summarize or
\* by summarize_journal_trends fails, the function is invoked again, up to
\* MAX_RETRIES invocations in all, and only after the last one has failed
\* does the caller get the fallback (the empty list for the fetch); the
\* caller never gets an error.
C12_RetriedBeforeFallback ==
    /\ (Returned("fetch") /\ call.fb.raises) =>
          /\ ret.decision = "return"
          /\ ret.val = <<>>
          /\ ret.attempts = MAX_RETRIES
    /\ (Returned("summarize") /\ client # None /\ call.svc.kind = "raise") =>
          /\ ret.decision = "return"
          /\ ret.attempts = MAX_RETRIES
    /\ (Returned("trends") /\ client # None /\ call.articles # <<>>
          /\ call.svc.kind = "raise") =>
          /\ ret.decision = "return"
          /\ ret.attempts = MAX_RETRIES

\* The reply is a text without a '[' ... ']' part that decodes
Malformed(svc) ==
    /\ svc.kind = "text"
    /\ \/ Find(svc.raw, "[") = 0
       \/ RFind(svc.raw, "]") = 0
       \/ ~JsonLoads(SubSeq(svc.raw, Find(svc.raw, "["), RFind(svc.raw, "]"))).ok

\* C13: when the reply to the selection request holds no '[' ... ']' JSON
\* array (a bracket is missing or the bracketed text does not decode), the
\* request is made again, MAX_RETRIES invocations in all, and only then does
\* select_valuable_with_llm return the first target_n candidates in order.
C13_MalformedRetried ==
    (Returned("select") /\ client # None /\ call.articles # <<>> /\ Malformed(call.svc)) =>
        /\ ret.decision = "return"
        /\ ret.attempts = MAX_RETRIES
        /\ ret.val = SubSeq(call.articles, 1, Min(call.target_n, Len(call.articles)))

\* The reply of a returned call of select holds an array that decodes
Decodes(svc) ==
    /\ svc.kind = "text"
    /\ Find(svc.raw, "[") # 0
    /\ RFind(svc.raw, "]") # 0
    /\ JsonLoads(SubSeq(svc.raw, Find(svc.raw, "["), RFind(svc.raw, "]"))).ok

\* The verdicts of the well-formed entries of that array, in its order
WellFormedVerdicts(svc, n_articles) ==
    Scored(JsonLoads(SubSeq(svc.raw, Find(svc.raw, "["), RFind(svc.raw, "]"))).data,
           n_articles)

\* C14: whenever the array decodes, the result is the ranking of its
\* well-formed entries (keep-true ones if there is one, else all; by score;
\* cut to target_n): an entry that is not an object, or has a missing,
\* non-numeric or out-of-range id, or a score that does not coerce, is
\* skipped and never makes the call fall back to the first target_n
\* candidates.
C14_EntriesDroppedOneByOne ==
    (Returned("select") /\ client # None /\ call.articles # <<>> /\ Decodes(call.svc)) =>
        LET sc == WellFormedVerdicts(call.svc, Len(call.articles))
            K  == IF KeepTrue(sc) = {} THEN 1..Len(sc) ELSE KeepTrue(sc)
        IN  ret.val = ExpectedPick(sc, K, call.articles, call.target_n)

---------------------------------------------------------------------------
(* Properties of the outcome of the run and of the degraded modes.         *)

\* The journals whose task returned at least one item
Contributors == {s \in J : future[s].articles # <<>>}

\* The items of a list, without their order
ItemSet(arts) == {arts[i] : i \in 1..Len(arts)}

\* C15: main() takes the overall-empty exit (nothing rendered) exactly when
\* every journal's task returned zero items; with at least one contributing
\* journal it renders, and what is rendered is exactly the contributing
\* journals' items, one group per contributing journal; a journal without
\* items (its task failed, or its feed did) has no item, no group and no
\* trend text.
C15_EmptyOrPartial ==
    /\ main_pc \in {"empty", "render", "end"} => \A s \in J : pc[s] = "done"
    /\ main_pc = "empty" => Contributors = {} /\ grouped = EmptyMap
    /\ main_pc \in {"render", "end"} => Contributors # {}
    /\ main_pc = "end" =>
          /\ DOMAIN grouped = {JOURNALS[s].name : s \in Contributors}
          /\ \A s \in Contributors :
                /\ ItemSet(grouped[JOURNALS[s].name]) = ItemSet(future[s].articles)
                /\ Len(grouped[JOURNALS[s].name]) = Len(future[s].articles)
          /\ \A s \in J \ Contributors :
                /\ ItemsOf(s) = <<>>
                /\ JOURNALS[s].name \notin DOMAIN grouped
                /\ JOURNALS[s].name \notin DOMAIN journal_trends

\* A partial success: one journal's task failed, one journal's feed gave
\* nothing to keep, one journal contributed.
C15_Witness ==
    /\ main_pc = "end"
    /\ \E s, t, u \in J :
          /\ raised[s]
          /\ ~raised[t] /\ future[t].articles = <<>>
          /\ future[u].articles # <<>>

\* The steps of journal s when no client is configured
DegradedStep(s) ==
    /\ (pc[s] = "select" /\ pc'[s] = "summarize") =>
          valuable'[s] = SubSeq(items[s], 1, Min(TARGET_ARTICLES_PER_JOURNAL, Len(items[s])))
    /\ (pc[s] = "summarize" /\ pc'[s] \in {"summarize", "synthesize"}) =>
          /\ Len(valuable'[s]) = Len(valuable[s])
          /\ \A i \in 1..Len(valuable[s]) :
                /\ valuable'[s][i].oid = valuable[s][i].oid
                /\ valuable'[s][i].title = valuable[s][i].title
    /\ (pc[s] = "synthesize" /\ pc'[s] = "done" /\ ~raised'[s]) =>
          /\ future'[s].articles = valuable[s]
          /\ future'[s].trends = <<>>
          /\ \A i \in 1..Len(valuable[s]) :
                LET a == valuable[s][i]
                IN  /\ a.has_summary
                    /\ a.summary = UnavailableSummary(a.title, a.journal)
                    /\ a.summary # FailedSummary(a.title)

\* C16: with no client configured, a journal with more candidates than
\* TARGET_ARTICLES_PER_JOURNAL ends with exactly the first
\* TARGET_ARTICLES_PER_JOURNAL candidates in their order, each carrying the
\* "not configured" placeholder (not the placeholder of a failed call), an
\* empty trend text and no entry in the trend mapping; and no request is
\* ever sent to the service.
C16_DegradedMode ==
    [][client = None =>
          /\ ~svc_called /\ ~svc_called'
          /\ journal_trends' = EmptyMap
          /\ \A s \in J : DegradedStep(s)]_vars

\* The feed gave three candidates (GWAS, Seed, QTL) and the first
\* TARGET_ARTICLES_PER_JOURNAL of them came out, with the placeholder.
C16_Witness ==
    /\ client = None
    /\ main_pc = "end"
    /\ \E s \in J :
          /\ Len(future[s].articles) = TARGET_ARTICLES_PER_JOURNAL
          /\ \A i \in 1..Len(future[s].articles) :
                future[s].articles[i].summary # FailedSummary(future[s].articles[i].title)
          /\ future[s].articles[1].title = <<"G","W","A","S">>
          /\ future[s].articles[TARGET_ARTICLES_PER_JOURNAL].title = <<"S","e","e","d">>

\* C17: summarize_journal_trends returns the empty text and raises nothing
\* when its list is empty, when no client is configured and when the service
\* call fails; and a task whose trend call returned (with or without text)
\* returns all of its selected items.
C17_TrendNeverFatal ==
    [][/\ Returned("trends")' =>
             /\ ret'.decision = "return"
             /\ (client = None \/ call'.articles = <<>> \/ call'.svc.kind # "text") =>
                    ret'.val = <<>>
       /\ \A s \in J : (pc[s] = "synthesize" /\ pc'[s] = "done" /\ ~raised'[s]) =>
             /\ future'[s].articles = valuable[s]
             /\ valuable[s] # <<>>
             /\ ~future'[s].exception]_vars

\* The service call of a direct call failed.
C17_Witness ==
    /\ Returned("trends")
    /\ client # None
    /\ call.articles # <<>>
    /\ call.svc.kind \in {"raise", "none"}
    /\ ret.val = <<>>

\* C18: in every state, journal_trends holds an entry for a journal only if
\* that journal's task has completed and returned a non-empty trend text
\* (the entry is that text), and the journal contributed items; it never
\* holds an empty text.
C18_TrendMap ==
    \A name \in DOMAIN journal_trends :
        /\ journal_trends[name] # <<>>
        /\ \E s \in J :
              /\ JOURNALS[s].name = name
              /\ pc[s] = "done"
              /\ s \in collected
              /\ future[s].trends = journal_trends[name]
              /\ ItemsOf(s) # <<>>

\* One journal has its entry; another contributed items but its trend call
\* gave no text, and has none.
C18_Witness ==
    \E s, t \in J :
        /\ JOURNALS[s].name \in DOMAIN journal_trends
        /\ t \in collected
        /\ ItemsOf(t) # <<>>
        /\ future[t].trends = <<>>
        /\ JOURNALS[t].name \notin DOMAIN journal_trends

---------------------------------------------------------------------------
(* Properties of the keyword filter.                                       *)

\* a and b are the same character, or the same letter in different case
SameLetter(a, b) ==
    \/ a = b
    \/ a \in DOMAIN UpperToLower /\ UpperToLower[a] = b
    \/ b \in DOMAIN UpperToLower /\ UpperToLower[b] = a

\* kw occurs in t at some position, case ignored
OccursIn(kw, t) ==
    \E i \in 0..(Len(t) - Len(kw)) : \A k \in 1..Len(kw) : SameLetter(t[i + k], kw[k])

C20_FilterIdempotent ==
    (Returned("filter") /\ ret.times = 2) => ret.val = ret.given

\* The first pass removed something and kept something.
C20_Witness ==
    /\ Returned("filter")
    /\ ret.times = 2
    /\ ret.val # <<>>
    /\ Len(ret.val) < Len(call.items)

---------------------------------------------------------------------------
(* Properties of the items and of the merge.                               *)

\* An item as it was before the summary loop reached it
Unsummarized(a) == [a EXCEPT !.has_summary = FALSE, !.summary = <<>>]

\* C21: in every state each item of all_articles has a non-empty title, a
\* non-empty link and a summary attached, passes is_core_research, and is
\* one of the items its journal's task returned; a task returns only items
\* its selection returned, these are fetched items that passed the filter,
\* and every fetched item has a title and a link.
C21_WellFormedResult ==
    /\ \A i \in 1..Len(all_articles) :
          LET a == all_articles[i]
          IN  /\ a.title # <<>>
              /\ a.link # <<>>
              /\ a.has_summary
              /\ is_core_research(a)
              /\ \E s \in collected :
                    /\ a.journal_id = JOURNALS[s].id
                    /\ a \in ItemSet(future[s].articles)
    /\ \A s \in J :
          /\ \A a \in ItemSet(items[s]) : a.title # <<>> /\ a.link # <<>>
          /\ pc[s] \in {"select", "summarize", "synthesize"} =>
                \A a \in ItemSet(items[s]) : is_core_research(a)
          /\ \A a \in ItemSet(valuable[s]) : Unsummarized(a) \in ItemSet(items[s])
          /\ \A a \in ItemSet(future[s].articles) :
                a.has_summary /\ a.title # <<>> /\ a.link # <<>> /\ is_core_research(a)

\* The merged result holds items of two journals whose feeds also held
\* entries that were dropped (no link, an excluded keyword).
C21_Witness ==
    /\ main_pc = "end"
    /\ client # None
    /\ \E i, k \in 1..Len(all_articles) :
          /\ all_articles[i].journal_id = "nature"
          /\ all_articles[k].journal_id = "cell"

\* The positions of entries that hold a title and a link, blanks trimmed
WithTitleAndLink(entries) ==
    {i \in 1..Len(entries) : Strip(entries[i].title) # <<>> /\ Strip(entries[i].link) # <<>>}

\* C22: fetch_rss_articles looks at the first max_items entries of the feed
\* only; it returns at most max_items items, one for each of those entries
\* that has a title and a link after trimming and none for the others, in
\* the order of the feed.
C22_FetchBound ==
    (Returned("fetch") /\ ~call.fb.raises) =>
        LET entries    == call.fb.entries
            considered == SubSeq(entries, 1, Min(call.max_items, Len(entries)))
            K          == WithTitleAndLink(considered)
        IN  /\ ret.decision = "return"
            /\ Len(ret.val) <= call.max_items
            /\ Len(ret.val) = Cardinality(K)
            /\ {ret.val[i].oid : i \in 1..Len(ret.val)} = K
            /\ \A i, k \in 1..Len(ret.val) : i < k => ret.val[i].oid < ret.val[k].oid
            /\ \A i \in 1..Len(ret.val) :
                  /\ ret.val[i].title = Strip(entries[ret.val[i].oid].title)
                  /\ ret.val[i].link = Strip(entries[ret.val[i].oid].link)

\* The feed is longer than max_items, an entry among the first max_items
\* was omitted and one was returned.
C22_Witness ==
    /\ Returned("fetch")
    /\ ~call.fb.raises
    /\ Len(call.fb.entries) > call.max_items
    /\ ret.val # <<>>
    /\ Len(ret.val) < call.max_items

---------------------------------------------------------------------------
(* Properties of the verdicts' indices.                                    *)

\* The entries of the array the reply holds
DecodedData(svc) ==
    JsonLoads(SubSeq(svc.raw, Find(svc.raw, "["), RFind(svc.raw, "]"))).data

\* C23: every item select_valuable_with_llm returns is one of the candidates
\* it was given; when the reply is used, each returned item is the candidate
\* at the index of some verdict of the reply, and that index lies in
\* 0 .. len(articles) - 1: a verdict with a negative or too large index picks
\* nothing, and the call does not fail on it.
C23_IndexBounds ==
    Returned("select") =>
        /\ ret.decision = "return"
        /\ \A i \in 1..Len(ret.val) : ret.val[i] \in ItemSet(call.articles)
        /\ SelectParsed =>
              \A i \in 1..Len(ret.val) :
                  \E k \in 1..Len(DecodedData(call.svc)) :
                      LET e == DecodedData(call.svc)[k]
                      IN  /\ e.t = "obj"
                          /\ PyInt(e.id).ok
                          /\ PyInt(e.id).v \in 0..(Len(call.articles) - 1)
                          /\ ret.val[i] = call.articles[PyInt(e.id).v + 1]

\* The reply holds a verdict with index -1, one with an index past the end,
\* and one that was used.
C23_Witness ==
    /\ SelectParsed
    /\ ret.val # <<>>
    /\ \E k \in 1..Len(DecodedData(call.svc)) : DecodedData(call.svc)[k].id = JV("int", -1)
    /\ \E k \in 1..Len(DecodedData(call.svc)) :
          /\ DecodedData(call.svc)[k].id.k = "int"
          /\ DecodedData(call.svc)[k].id.v >= Len(call.articles)

\* C24: a verdict whose index is not an exact integer (1.7, "1", True) is
\* dropped: when the reply is used, every returned item is the candidate at
\* the index of a verdict whose index is an integer of the reply, never the
\* candidate at the converted value of another kind of index.
C24_NoIndexCoercion ==
    SelectParsed =>
        \A i \in 1..Len(ret.val) :
            \E k \in 1..Len(DecodedData(call.svc)) :
                LET e == DecodedData(call.svc)[k]
                IN  /\ e.t = "obj"
                    /\ e.id.k = "int"
                    /\ e.id.v \in 0..(Len(call.articles) - 1)
                    /\ ret.val[i] = call.articles[e.id.v + 1]

\* C30: select_valuable_with_llm returns each candidate at most once,
\* whatever the reply, several verdicts with the same index included.
C30_NoDuplicateSelection ==
    Returned("select") =>
        \A i, j \in 1..Len(ret.val) :
            i # j => ret.val[i].oid # ret.val[j].oid

---------------------------------------------------------------------------
(* Properties of the coordinator.                                          *)

\* The shared result of main()
SharedResult == <<all_articles, journal_trends>>

\* The coordinator merges the whole result of the completed task s
MergeStep(s) ==
    /\ main_pc = "collect"
    /\ pc[s] = "done"
    /\ pc'[s] = "done"
    /\ s \notin collected
    /\ collected' = collected \cup {s}
    /\ future'[s] = future[s]
    /\ IF future[s].exception
       THEN SharedResult' = SharedResult
       ELSE /\ all_articles' = all_articles \o future[s].articles
            /\ journal_trends' =
                 IF future[s].trends # <<>>
                 THEN (JOURNALS[s].name :> future[s].trends) @@ journal_trends
                 ELSE journal_trends

\* The shared result holds the whole output of each merged task, once, with
\* its trend decision, and nothing of the others
WholeOrNothing ==
    \A s \in J :
        /\ ItemsOf(s) = IF s \in collected THEN future[s].articles ELSE <<>>
        /\ JOURNALS[s].name \in DOMAIN journal_trends <=>
              (s \in collected /\ future[s].trends # <<>>)
        /\ JOURNALS[s].name \in DOMAIN journal_trends =>
              journal_trends[JOURNALS[s].name] = future[s].trends

\* C25: the shared result (all_articles, journal_trends) changes only in a
\* step of the coordinator that merges one completed, not yet merged task,
\* and that step appends all of the task's items and records its trend text
\* if it has one; no step of a task touches it; so after every step the
\* shared result holds, for each journal, either nothing or the journal's
\* whole output once.
C25_AtomicMerge ==
    [][/\ (SharedResult' # SharedResult \/ collected' # collected) =>
              \E s \in J : MergeStep(s)
       /\ (\E s \in J : pc'[s] # pc[s]) => SharedResult' = SharedResult
       /\ Len(all_articles') - Len(all_articles) \in
              {0} \cup {Len(future[s].articles) : s \in J \ collected}
       /\ WholeOrNothing']_vars

\* One journal's items are merged while another task is still running and
\* already holds selected items, none of which is in the shared result.
C25_Witness ==
    \E s, t \in J :
        /\ s \in collected
        /\ future[s].articles # <<>>
        /\ ItemsOf(s) = future[s].articles
        /\ pc[t] \in {"summarize", "synthesize"}
        /\ valuable[t] # <<>>
        /\ ItemsOf(t) = <<>>

\* C26: generate_html starts only when every submitted task has completed
\* and its result has been merged; the sync step starts only when
\* generate_html has returned; from the start of rendering on, nothing is
\* collected and the merged result no longer changes.
C26_PhaseOrder ==
    [][/\ main_pc' \in {"render", "sync", "end"} =>
              /\ submitted' = Len(JOURNALS)
              /\ queue' = <<>>
              /\ \A s \in J : pc'[s] = "done"
              /\ collected' = J
              /\ completed' = Len(JOURNALS)
       /\ main_pc' \in {"submit", "collect", "check", "render", "empty"} =>
              grouped' = EmptyMap
       /\ main_pc' = "sync" =>
              /\ main_pc = "render"
              /\ grouped' = Grouped(all_articles)
              /\ grouped' # EmptyMap
       /\ main_pc = "sync" => main_pc' = "end" /\ grouped' = grouped
       /\ main_pc \in {"render", "sync", "end"} =>
              /\ SharedResult' = SharedResult
              /\ collected' = collected
              /\ main_pc' \notin {"submit", "collect", "check"}]_vars

\* The sync step is about to run on a rendered result of two journals.
C26_Witness ==
    /\ main_pc = "sync"
    /\ Cardinality(DOMAIN grouped) >= 2

\* No task of the run is ever past the first invocation of a decorated
\* function: the decorator never waits inside process_journal.
NoBackoffInPipeline == \A s \in J : attempt[s] = 1

---------------------------------------------------------------------------
(* Properties of the requests' payloads.                                   *)

\* out is text if text has at most n characters, and otherwise the first n
\* characters of text followed by three dots
CutWithDots(out, text, n) ==
    IF Len(text) <= n
    THEN out = text
    ELSE /\ Len(out) = n + 3
         /\ \A i \in 1..n : out[i] = text[i]
         /\ \A i \in (n + 1)..(n + 3) : out[i] = "."

\* C28 as stated: each abstract of the selection payload has at most 800
\* characters and each summary of the trend payload at most 600.
C28_PayloadBudget ==
    Returned("payload") =>
        /\ \A i \in 1..Len(ret.select) : Len(ret.select[i].abstract) <= ABSTRACT_BUDGET
        /\ \A i \in 1..Len(ret.trends) : Len(ret.trends[i].summary) <= SUMMARY_BUDGET

\* C28, amended: each abstract of the selection payload is the abstract
\* (line breaks as blanks) when that has at most 800 characters, and
\* otherwise its first 800 characters followed by "...", 803 characters;
\* each summary of the trend payload is the trimmed summary when that has at
\* most 600 characters, and otherwise its first 600 characters followed by
\* "...", 603 characters.
C28_PayloadBudgetWithDots ==
    Returned("payload") =>
        /\ Len(ret.select) = Len(call.articles)
        /\ Len(ret.trends) = Len(call.articles)
        /\ \A i \in 1..Len(call.articles) :
              LET abstract == ReplaceNewlines(call.articles[i].abstract)
                  summary  == Strip(call.articles[i].summary)
              IN  /\ Len(ret.select[i].abstract) <= ABSTRACT_BUDGET + 3
                  /\ CutWithDots(ret.select[i].abstract, abstract, ABSTRACT_BUDGET)
                  /\ Len(ret.trends[i].summary) <= SUMMARY_BUDGET + 3
                  /\ CutWithDots(ret.trends[i].summary, summary, SUMMARY_BUDGET)

\* An abstract of 801 characters and a summary of 601 went into the
\* payloads with 803 and 603.
C28_Witness ==
    /\ Returned("payload")
    /\ Len(call.articles[1].abstract) = ABSTRACT_BUDGET + 1
    /\ Len(Strip(call.articles[1].summary)) = SUMMARY_BUDGET + 1
    /\ Len(ret.select[1].abstract) = ABSTRACT_BUDGET + 3
    /\ Len(ret.trends[1].summary) = SUMMARY_BUDGET + 3

---------------------------------------------------------------------------
(* Properties of commit_and_push().                                        *)

\* The pushes commit_and_push() has made, in order
Pushes == SelectSeq(sync.log, LAMBDA c : c.cmd = "push")

\* C29: git push is attempted at most max_retries (3) times; a push that
\* ends with a non-zero exit code is followed by another one while attempts
\* remain; commit_and_push returns True after a push only if the last push
\* ended with exit code 0, and False when all 3 pushes failed.
C29_PushRetry ==
    /\ Len(Pushes) <= max_retries
    /\ \A i \in 1..Len(Pushes) :
          (Pushes[i].code # 0 /\ i < max_retries) =>
              (i < Len(Pushes) \/ sync.pc = "push")
    /\ (sync.pc = "done" /\ Pushes # <<>>) =>
          (sync.result <=> Pushes[Len(Pushes)].code = 0)

---------------------------------------------------------------------------
(* Termination of the run.                                                 *)

\* C31: whatever the feeds and the service do, no stage of a task is
\* invoked more than MAX_RETRIES times in a row and the summary loop makes
\* at most TARGET_ARTICLES_PER_JOURNAL rounds; every task eventually is done
\* and stays done, every task's result is eventually collected, and main()
\* eventually finishes (after the sync step or generate_html, or at the
\* empty exit).
C31_Termination ==
    /\ [](\A s \in J : attempt[s] <= MAX_RETRIES /\ sum_i[s] <= TARGET_ARTICLES_PER_JOURNAL)
    /\ \A s \in J : <>[](pc[s] = "done")
    /\ <>[](collected = J)
    /\ <>[](main_pc \in {"end", "empty"})

\* The run has finished after the service was called, with one task that
\* raised and one whose items were summarized one by one.
C31_Witness ==
    /\ main_pc = "end"
    /\ collected = J
    /\ svc_called
    /\ \E s, t \in J :
          /\ raised[s]
          /\ Len(future[t].articles) = TARGET_ARTICLES_PER_JOURNAL

====
